---- MODULE Spec2Model ----
(***************************************************************************)
(* Model of vibrate.py: the command line front end (main), the two         *)
(* renderers (VibrationSimulator.vibrate and .play_pattern) and the shared *)
(* animation helper (_animate_vibration).                                  *)
(*                                                                         *)
(* Strings that the program splits, trims or compares are sequences of     *)
(* one-character strings.  Durations are integer milliseconds; a sleep of  *)
(* duration / steps is recorded as the pair num / den, so no rounding is   *)
(* introduced by the model.  Everything the program does that can be       *)
(* observed (lines written, dots written, sleeps) is appended to io.       *)
(***************************************************************************)
EXTENDS Integers, Sequences, FiniteSets, TLC

\* ---------------------------------------------------------------- bounds
MaxCount == 3
MaxPatLen == 3
MaxDurationCs == 60

\* ------------------------------------------------------------- text data
light == <<"l", "i", "g", "h", "t">>
medium == <<"m", "e", "d", "i", "u", "m">>
heavy == <<"h", "e", "a", "v", "y">>

Whitespace == {" "}

\* the choices list of the --intensity argument
choices == {light, medium, heavy}

\* tokens the command line may carry between the commas of --pattern
Pieces ==
  { light, medium, heavy,
    <<" ">> \o medium \o <<" ">>,
    <<"H", "e", "a", "v", "y">>,
    <<"b", "o", "g", "u", "s">>,
    <<>> }

RECURSIVE Join(_)
Join(ps) ==
  IF Len(ps) = 1 THEN ps[1] ELSE ps[1] \o <<",">> \o Join(Tail(ps))

\* str.upper() on the letters the names use
UpperChar ==
  [c \in {"l", "i", "g", "h", "t", "m", "e", "d", "u", "a", "v", "y"} |->
     CASE c = "l" -> "L" [] c = "i" -> "I" [] c = "g" -> "G" [] c = "h" -> "H"
       [] c = "t" -> "T" [] c = "m" -> "M" [] c = "e" -> "E" [] c = "d" -> "D"
       [] c = "u" -> "U" [] c = "a" -> "A" [] c = "v" -> "V" [] c = "y" -> "Y"]

Upper(s) ==
  [n \in 1..Len(s) |-> IF s[n] \in DOMAIN UpperChar THEN UpperChar[s[n]] ELSE s[n]]

\* str.split(',')
RECURSIVE Split(_)
Split(s) ==
  IF \A n \in 1..Len(s) : s[n] # ","
  THEN <<s>>
  ELSE LET c == CHOOSE n \in 1..Len(s) :
                  s[n] = "," /\ \A m \in 1..(n - 1) : s[m] # ","
       IN <<SubSeq(s, 1, c - 1)>> \o Split(SubSeq(s, c + 1, Len(s)))

RECURSIVE LStrip(_)
LStrip(s) ==
  IF s # <<>> /\ Head(s) \in Whitespace THEN LStrip(Tail(s)) ELSE s

RECURSIVE RStrip(_)
RStrip(s) ==
  IF s # <<>> /\ s[Len(s)] \in Whitespace
  THEN RStrip(SubSeq(s, 1, Len(s) - 1))
  ELSE s

\* str.strip()
Strip(s) == RStrip(LStrip(s))

\* [p.strip() for p in args.pattern.split(',')]
PatternNames(text) ==
  LET parts == Split(text) IN [n \in 1..Len(parts) |-> Strip(parts[n])]

\* ------------------------------------------------------ intensity catalog
Members == {"LIGHT", "MEDIUM", "HEAVY"}

VibrationIntensity ==
  [m \in Members |->
     CASE m = "LIGHT" ->
            [intensity_name |-> light, duration |-> 100,
             symbol |-> "tilde", block |-> "light_shade"]
       [] m = "MEDIUM" ->
            [intensity_name |-> medium, duration |-> 300,
             symbol |-> "almost_equal", block |-> "medium_shade"]
       [] m = "HEAVY" ->
            [intensity_name |-> heavy, duration |-> 500,
             symbol |-> "triple_tilde", block |-> "dark_shade"]]

\* int(x * k) for a duration x held in milliseconds
IntTimes(ms, k) == (ms * k) \div 1000

\* bar_length = int(intensity.duration * 60)
BarLength(ms) == IntTimes(ms, 60)

\* steps = int(duration * 10)
AnimSteps(ms) == IntTimes(ms, 10)

\* the if / elif / else colour selection of vibrate
VibrateColor(m) ==
  IF m = "LIGHT" THEN "green" ELSE IF m = "MEDIUM" THEN "yellow" ELSE "red"

PatternColor_swapped(m) ==
  IF m = "LIGHT" THEN "green" ELSE IF m = "MEDIUM" THEN "red" ELSE "yellow"

\* the if / elif / else colour selection of play_pattern
PatternColor(m) ==
  IF m = "LIGHT" THEN "green" ELSE IF m = "MEDIUM" THEN "yellow" ELSE "red"

VibrateBar(m) ==
  [block |-> VibrationIntensity[m].block,
   length |-> BarLength(VibrationIntensity[m].duration),
   color |-> VibrateColor(m)]

PatternBar(m) ==
  [block |-> VibrationIntensity[m].block,
   length |-> BarLength(VibrationIntensity[m].duration),
   color |-> PatternColor(m)]

\* ------------------------------------------------------------- decisions
CountInvalid_negative(c) == c < 0

\* if args.count < 1
CountInvalid(c) == c < 1

PatternTruthy_never(p) == FALSE

PatternTruthy_given(p) == p.given

\* if args.pattern: None and the empty string are both falsy
PatternTruthy(p) == p.given /\ p.text # <<>>

IsKnownName_anycase(name) ==
  name \in {light, medium, heavy, <<"H", "e", "a", "v", "y">>}

\* the if / elif / else chain over the token names
IsKnownName(name) == name = light \/ name = medium \/ name = heavy

MemberOf(name) ==
  IF name = light THEN "LIGHT" ELSE IF name = medium THEN "MEDIUM" ELSE "HEAVY"

\* intensity_map[args.intensity]
intensity_map(name) ==
  IF name = light THEN "LIGHT" ELSE IF name = medium THEN "MEDIUM" ELSE "HEAVY"

VibrateContinue_short(n, c) == n < c

\* for i in range(1, count + 1)
VibrateContinue(n, c) == n <= c

PauseNeeded_always(n, c) == TRUE

\* if i < count
PauseNeeded(n, c) == n < c

PatternElement_reversed(pat, n) == pat[Len(pat) + 1 - n]

\* enumerate(pattern): the element at 1-based position n
PatternElement(pat, n) == pat[n]

\* if index < len(pattern) - 1, with index = n - 1
PatternPauseNeeded(n, len) == n - 1 < len - 1

AnimContinue_atleastonce(n, s) == n < s \/ n = 0

\* for _ in range(steps), n iterations done so far
AnimContinue(n, s) == n < s

TokenExitCode_two == 1 + 1

\* sys.exit(1) after the count error
CountExitCode == 1
\* sys.exit(1) after the invalid token error
TokenExitCode == 1
\* parser.error exits with status 2
ArgparseExitCode == 2
\* interpreter status after an uncaught exception
UncaughtExitCode == 1

\* ----------------------------------------------------------------- state
VARIABLES
  args,           \* parsed command line: intensity, count, pattern
  pc,             \* position in the program
  ret,            \* where _animate_vibration returns to
  pattern_names,  \* main: trimmed tokens of --pattern
  pattern,        \* main / play_pattern: list of members
  k,              \* main: tokens consumed by the for loop
  intensity,      \* vibrate: member
  count,          \* vibrate: count
  i,              \* vibrate: i; play_pattern: index + 1
  duration,       \* _animate_vibration: duration in ms
  steps,          \* _animate_vibration: steps
  j,              \* _animate_vibration: iterations done
  io,             \* observable effects in order
  exitCode        \* process status, meaningful once pc = "exited"

vars ==
  <<args, pc, ret, pattern_names, pattern, k, intensity, count, i,
    duration, steps, j, io, exitCode>>

mainLocals == <<pattern_names, pattern, k>>
renderLocals == <<intensity, count, i>>
animLocals == <<duration, steps, j>>

Counts == {-5, 0} \cup (1..MaxCount)

Intensities == choices \cup {<<"b", "o", "g", "u", "s">>}

PatternArgs ==
  {[given |-> FALSE, text |-> <<>>]} \cup
  {[given |-> TRUE, text |-> Join(ps)] :
     ps \in UNION {[1..n -> Pieces] : n \in 1..MaxPatLen}}

Durations == {10 * c : c \in 0..MaxDurationCs}

Locals0 ==
  /\ pattern_names = <<>>
  /\ pattern = <<>>
  /\ k = 0
  /\ intensity = "MEDIUM"
  /\ count = 0
  /\ i = 0
  /\ steps = 0
  /\ j = 0
  /\ io = <<>>
  /\ exitCode = 0

\* the process starts with some command line
Init ==
  /\ args \in [intensity : Intensities, count : Counts, pattern : PatternArgs]
  /\ pc = "parse_args"
  /\ ret = "none"
  /\ duration = 0
  /\ Locals0

Emit(evs) == io' = io \o evs

Exit(code) == pc' = "exited" /\ exitCode' = code

\* args = parser.parse_args()
ParseArgs ==
  /\ pc = "parse_args"
  /\ IF args.intensity \in choices
     THEN /\ pc' = "validate_count"
          /\ UNCHANGED <<io, exitCode>>
     ELSE /\ Emit(<<[kind |-> "usage_error", stream |-> "stderr"]>>)
          /\ Exit(ArgparseExitCode)
  /\ UNCHANGED <<args, ret, mainLocals, renderLocals, animLocals>>

\* if args.count < 1: print error; sys.exit(1)
ValidateCount ==
  /\ pc = "validate_count"
  /\ IF CountInvalid(args.count)
     THEN /\ Emit(<<[kind |-> "error_count"]>>)
          /\ Exit(CountExitCode)
     ELSE /\ pc' = "select_mode"
          /\ UNCHANGED <<io, exitCode>>
  /\ UNCHANGED <<args, ret, mainLocals, renderLocals, animLocals>>

\* if args.pattern: ... else: simulator.vibrate(intensity, args.count)
SelectMode ==
  /\ pc = "select_mode"
  /\ IF PatternTruthy(args.pattern)
     THEN /\ pattern_names' = PatternNames(args.pattern.text)
          /\ pattern' = <<>>
          /\ k' = 0
          /\ pc' = "token_loop"
          /\ UNCHANGED renderLocals
     ELSE /\ intensity' = intensity_map(args.intensity)
          /\ count' = args.count
          /\ pc' = "vibrate_begin"
          /\ UNCHANGED <<i, mainLocals>>
  /\ UNCHANGED <<args, ret, animLocals, io, exitCode>>

\* one iteration of for name in pattern_names
ParseToken ==
  /\ pc = "token_loop"
  /\ k < Len(pattern_names)
  /\ LET name == pattern_names[k + 1] IN
       IF IsKnownName(name)
       THEN /\ pattern' = Append(pattern, MemberOf(name))
            /\ k' = k + 1
            /\ UNCHANGED <<pc, io, exitCode>>
       ELSE /\ Emit(<<[kind |-> "error_token", name |-> name]>>)
            /\ Exit(TokenExitCode)
            /\ UNCHANGED <<pattern, k>>
  /\ UNCHANGED <<args, ret, pattern_names, renderLocals, animLocals>>

\* simulator.play_pattern(pattern): the two lines before the loop
PlayBegin ==
  /\ pc = "token_loop"
  /\ k = Len(pattern_names)
  /\ Emit(<<[kind |-> "title", text |-> "Playing vibration pattern...",
             color |-> "purple"],
            [kind |-> "rule", color |-> "blue"]>>)
  /\ i' = 1
  /\ pc' = "play_loop"
  /\ UNCHANGED <<args, ret, mainLocals, intensity, count, animLocals, exitCode>>

\* play_pattern: header, bar and the call of _animate_vibration
PlayStep ==
  /\ pc = "play_loop"
  /\ i <= Len(pattern)
  /\ LET m == PatternElement(pattern, i) IN
       /\ Emit(<<[kind |-> "step_header", i |-> i, total |-> Len(pattern),
                  name |-> VibrationIntensity[m].intensity_name,
                  color |-> "bold"],
                 [kind |-> "bar", bar |-> PatternBar(m)]>>)
       /\ duration' = VibrationIntensity[m].duration
  /\ ret' = "play_pause"
  /\ pc' = "anim_begin"
  /\ UNCHANGED <<args, mainLocals, renderLocals, steps, j, exitCode>>

\* play_pattern: if index < len(pattern) - 1: time.sleep(0.3)
PlayPause ==
  /\ pc = "play_pause"
  /\ IF PatternPauseNeeded(i, Len(pattern))
     THEN Emit(<<[kind |-> "sleep", num |-> 300, den |-> 1]>>)
     ELSE UNCHANGED io
  /\ i' = i + 1
  /\ pc' = "play_loop"
  /\ UNCHANGED <<args, ret, mainLocals, intensity, count, animLocals, exitCode>>

\* play_pattern: the two lines after the loop
PlayEnd ==
  /\ pc = "play_loop"
  /\ i > Len(pattern)
  /\ Emit(<<[kind |-> "rule_nl", color |-> "blue"],
            [kind |-> "banner", text |-> "Pattern complete!",
             color |-> "green"]>>)
  /\ pc' = "main_return"
  /\ UNCHANGED <<args, ret, mainLocals, renderLocals, animLocals, exitCode>>

\* vibrate: the two lines before the loop
VibrateBegin ==
  /\ pc = "vibrate_begin"
  /\ Emit(<<[kind |-> "title", text |-> "Vibration Simulator",
             color |-> "bold"],
            [kind |-> "rule", color |-> "blue"]>>)
  /\ i' = 1
  /\ pc' = "vibrate_loop"
  /\ UNCHANGED <<args, ret, mainLocals, intensity, count, animLocals, exitCode>>

\* vibrate: header with bar and the call of _animate_vibration
VibrateStep ==
  /\ pc = "vibrate_loop"
  /\ VibrateContinue(i, count)
  /\ Emit(<<[kind |-> "rep_header", i |-> i, total |-> count,
             label |-> Upper(VibrationIntensity[intensity].intensity_name),
             bar |-> VibrateBar(intensity)]>>)
  /\ duration' = VibrationIntensity[intensity].duration
  /\ ret' = "vibrate_pause"
  /\ pc' = "anim_begin"
  /\ UNCHANGED <<args, mainLocals, renderLocals, steps, j, exitCode>>

\* vibrate: if i < count: time.sleep(0.2)
VibratePause ==
  /\ pc = "vibrate_pause"
  /\ IF PauseNeeded(i, count)
     THEN Emit(<<[kind |-> "sleep", num |-> 200, den |-> 1]>>)
     ELSE UNCHANGED io
  /\ i' = i + 1
  /\ pc' = "vibrate_loop"
  /\ UNCHANGED <<args, ret, mainLocals, intensity, count, animLocals, exitCode>>

\* vibrate: the two lines after the loop
VibrateEnd ==
  /\ pc = "vibrate_loop"
  /\ ~VibrateContinue(i, count)
  /\ Emit(<<[kind |-> "rule", color |-> "blue"],
            [kind |-> "banner", text |-> "Vibration complete!",
             color |-> "green"]>>)
  /\ pc' = "main_return"
  /\ UNCHANGED <<args, ret, mainLocals, renderLocals, animLocals, exitCode>>

\* _animate_vibration: steps = int(duration * 10)
AnimateBegin ==
  /\ pc = "anim_begin"
  /\ steps' = AnimSteps(duration)
  /\ j' = 0
  /\ pc' = "anim_loop"
  /\ UNCHANGED <<args, ret, mainLocals, renderLocals, duration, io, exitCode>>

\* _animate_vibration: write '.', flush, time.sleep(duration / steps)
AnimateTick ==
  /\ pc = "anim_loop"
  /\ AnimContinue(j, steps)
  /\ IF steps = 0
     THEN /\ Emit(<<[kind |-> "dot"],
                    [kind |-> "traceback", error |-> "ZeroDivisionError"]>>)
          /\ Exit(UncaughtExitCode)
          /\ UNCHANGED j
     ELSE /\ Emit(<<[kind |-> "dot"],
                    [kind |-> "sleep", num |-> duration, den |-> steps]>>)
          /\ j' = j + 1
          /\ UNCHANGED <<pc, exitCode>>
  /\ UNCHANGED <<args, ret, mainLocals, renderLocals, duration, steps>>

\* _animate_vibration: print() after the loop, then return
AnimateEnd ==
  /\ pc = "anim_loop"
  /\ ~AnimContinue(j, steps)
  /\ Emit(<<[kind |-> "newline"]>>)
  /\ pc' = ret
  /\ UNCHANGED <<args, ret, mainLocals, renderLocals, animLocals, exitCode>>

\* main returns: the interpreter exits with status 0
MainReturn ==
  /\ pc = "main_return"
  /\ Exit(0)
  /\ UNCHANGED <<args, ret, mainLocals, renderLocals, animLocals, io>>

Next ==
  \/ ParseArgs
  \/ ValidateCount
  \/ SelectMode
  \/ ParseToken
  \/ PlayBegin
  \/ PlayStep
  \/ PlayPause
  \/ PlayEnd
  \/ VibrateBegin
  \/ VibrateStep
  \/ VibratePause
  \/ VibrateEnd
  \/ AnimateBegin
  \/ AnimateTick
  \/ AnimateEnd
  \/ MainReturn

Spec == Init /\ [][Next]_vars

\* the runs of single-intensity mode: --pattern absent or empty
InitRepeated ==
  /\ args \in [intensity : Intensities, count : Counts,
               pattern : {[given |-> FALSE, text |-> <<>>],
                          [given |-> TRUE, text |-> <<>>]}]
  /\ pc = "parse_args"
  /\ ret = "none"
  /\ duration = 0
  /\ Locals0

NextRepeated ==
  \/ ParseArgs
  \/ ValidateCount
  \/ SelectMode
  \/ VibrateBegin
  \/ VibrateStep
  \/ VibratePause
  \/ VibrateEnd
  \/ AnimateBegin
  \/ AnimateTick
  \/ AnimateEnd
  \/ MainReturn

\* the program is sequential and every sleep is finite
FairSpecRepeated ==
  InitRepeated /\ [][NextRepeated]_vars /\ WF_vars(NextRepeated)

\* _animate_vibration called on its own with any duration of the grid
InitAnimate ==
  /\ args = [intensity |-> medium, count |-> 1,
             pattern |-> [given |-> FALSE, text |-> <<>>]]
  /\ pc = "anim_begin"
  /\ ret = "returned"
  /\ duration \in Durations
  /\ Locals0

NextAnimate ==
  \/ AnimateBegin
  \/ AnimateTick
  \/ AnimateEnd

SpecAnimate == InitAnimate /\ [][NextAnimate]_vars

\* ===================================================== reference notions
\* What the documentation says, written without the operators above.

Names == {light, medium, heavy}

Exited == pc = "exited"

ArgsAccepted == args.intensity \in Names

CommaPos(s) == {n \in 1..Len(s) : s[n] = ","}

\* position of the t-th comma; 0 before the first, Len + 1 after the last
Boundary(s, t) ==
  IF t = 0 THEN 0
  ELSE IF t > Cardinality(CommaPos(s)) THEN Len(s) + 1
  ELSE CHOOSE n \in CommaPos(s) :
         Cardinality({m \in CommaPos(s) : m <= n}) = t

Trimmed(s) ==
  LET keep == {n \in 1..Len(s) : s[n] # " "} IN
    IF keep = {} THEN <<>>
    ELSE SubSeq(s, CHOOSE n \in keep : \A m \in keep : n <= m,
                   CHOOSE n \in keep : \A m \in keep : n >= m)

\* the comma-separated tokens of a --pattern value, trimmed
Tokens(s) ==
  [t \in 1..(Cardinality(CommaPos(s)) + 1) |->
     Trimmed(SubSeq(s, Boundary(s, t - 1) + 1, Boundary(s, t) - 1))]

ArgTokens == Tokens(args.pattern.text)

BadTokens == {t \in DOMAIN ArgTokens : ArgTokens[t] \notin Names}

FirstBad == CHOOSE t \in BadTokens : \A u \in BadTokens : t <= u

ValidPattern == args.pattern.given /\ BadTokens = {}

DocMs(nm) == IF nm = light THEN 100 ELSE IF nm = medium THEN 300 ELSE 500

DocDots(nm) == IF nm = light THEN 1 ELSE IF nm = medium THEN 3 ELSE 5

DocBar(nm) ==
  IF nm = light THEN [block |-> "light_shade", length |-> 6, color |-> "green"]
  ELSE IF nm = medium
  THEN [block |-> "medium_shade", length |-> 18, color |-> "yellow"]
  ELSE [block |-> "dark_shade", length |-> 30, color |-> "red"]

DocLabel(nm) ==
  IF nm = light THEN <<"L", "I", "G", "H", "T">>
  ELSE IF nm = medium THEN <<"M", "E", "D", "I", "U", "M">>
  ELSE <<"H", "E", "A", "V", "Y">>

\* dots dots, each followed by a sleep of ms / dots, then the newline
DocAnimation(ms, dots) ==
  [n \in 1..(2 * dots + 1) |->
     IF n = 2 * dots + 1 THEN [kind |-> "newline"]
     ELSE IF n % 2 = 1 THEN [kind |-> "dot"]
     ELSE [kind |-> "sleep", num |-> ms, den |-> dots]]

DocPause(ms, n, total) ==
  IF n < total THEN <<[kind |-> "sleep", num |-> ms, den |-> 1]>> ELSE <<>>

RECURSIVE DocRepeatedSteps(_, _, _)
DocRepeatedSteps(nm, n, total) ==
  IF n > total THEN <<>>
  ELSE <<[kind |-> "rep_header", i |-> n, total |-> total,
          label |-> DocLabel(nm), bar |-> DocBar(nm)]>>
       \o DocAnimation(DocMs(nm), DocDots(nm))
       \o DocPause(200, n, total)
       \o DocRepeatedSteps(nm, n + 1, total)

DocRepeated(nm, total) ==
  <<[kind |-> "title", text |-> "Vibration Simulator", color |-> "bold"],
    [kind |-> "rule", color |-> "blue"]>>
  \o DocRepeatedSteps(nm, 1, total)
  \o <<[kind |-> "rule", color |-> "blue"],
       [kind |-> "banner", text |-> "Vibration complete!", color |-> "green"]>>

RECURSIVE DocPatternSteps(_, _)
DocPatternSteps(toks, n) ==
  IF n > Len(toks) THEN <<>>
  ELSE <<[kind |-> "step_header", i |-> n, total |-> Len(toks),
          name |-> toks[n], color |-> "bold"],
         [kind |-> "bar", bar |-> DocBar(toks[n])]>>
       \o DocAnimation(DocMs(toks[n]), DocDots(toks[n]))
       \o DocPause(300, n, Len(toks))
       \o DocPatternSteps(toks, n + 1)

DocPattern(toks) ==
  <<[kind |-> "title", text |-> "Playing vibration pattern...",
     color |-> "purple"],
    [kind |-> "rule", color |-> "blue"]>>
  \o DocPatternSteps(toks, 1)
  \o <<[kind |-> "rule_nl", color |-> "blue"],
       [kind |-> "banner", text |-> "Pattern complete!", color |-> "green"]>>

RenderKinds ==
  {"title", "rule", "rule_nl", "rep_header", "step_header", "bar", "dot",
   "newline", "banner"}

Positions(kind) == {n \in DOMAIN io : io[n].kind = kind}

NothingRendered == \A n \in DOMAIN io : io[n].kind \notin RenderKinds

IsTitle(text) == io # <<>> /\ io[1].kind = "title" /\ io[1].text = text

\* vibrate has been entered
RepeatedRan == IsTitle("Vibration Simulator")

\* play_pattern has been entered
PatternRan == IsTitle("Playing vibration pattern...")

\* a sleep that is not the sleep of an animation tick
IsPause(n) ==
  /\ io[n].kind = "sleep"
  /\ (n = 1 \/ io[n - 1].kind # "dot")

Pauses == {n \in DOMAIN io : IsPause(n)}

\* 60 times the sum of the sleeps of io[1..n], in milliseconds
RECURSIVE Slept60(_)
Slept60(n) ==
  IF n = 0 THEN 0
  ELSE Slept60(n - 1)
       + (IF io[n].kind = "sleep" THEN (60 * io[n].num) \div io[n].den ELSE 0)

\* ================================================================ claims

\* C1: without --pattern, a count below 1 prints the count error, exits
\* with status 1 and renders nothing at any time; a count of 1 or more
\* renders and exits with status 0.
C1_CountValidation ==
  (ArgsAccepted /\ ~args.pattern.given) =>
    /\ args.count < 1 =>
         /\ NothingRendered
         /\ Exited => (exitCode = 1 /\ io = <<[kind |-> "error_count"]>>)
    /\ (args.count >= 1 /\ Exited) =>
         /\ exitCode = 0
         /\ Positions("rep_header") # {}
         /\ Positions("banner") # {}

C1_Witness ==
  /\ Exited /\ ArgsAccepted /\ ~args.pattern.given
  /\ args.count = 0 /\ exitCode = 1

\* C2: a non-empty --pattern with count >= 1 that holds a token which,
\* trimmed, is not light, medium or heavy never renders anything and ends
\* with status 1 after one error line that names the first such token.
C2_PatternValidation ==
  (/\ ArgsAccepted /\ args.count >= 1
   /\ args.pattern.given /\ args.pattern.text # <<>>
   /\ BadTokens # {}) =>
    /\ NothingRendered
    /\ Exited =>
         /\ exitCode = 1
         /\ io = <<[kind |-> "error_token", name |-> ArgTokens[FirstBad]]>>

C2_Witness ==
  /\ Exited /\ ArgsAccepted /\ args.count >= 1
  /\ args.pattern.given
  /\ args.pattern.text = light \o <<",", "b", "o", "g", "u", "s", ",">> \o heavy
  /\ exitCode = 1

\* C3 as stated: with a valid pattern the run ends with status 0 after
\* playing the pattern once, whatever --intensity (of the choice set) and
\* whatever integer --count are.
C3_AnyCount ==
  (Exited /\ ArgsAccepted /\ ValidPattern) =>
    (exitCode = 0 /\ io = DocPattern(ArgTokens))

\* C3 amended: with a valid pattern, any --intensity of the choice set and
\* any --count >= 1, the run ends with status 0 and its output is the
\* playback of the pattern, a function of the pattern alone; with
\* count < 1 the run is rejected with status 1 and nothing is played.
C3_PrecedenceFromOne ==
  (Exited /\ ArgsAccepted /\ ValidPattern) =>
    IF args.count >= 1
    THEN exitCode = 0 /\ io = DocPattern(ArgTokens)
    ELSE exitCode = 1 /\ NothingRendered

C3_Witness ==
  /\ Exited /\ ValidPattern /\ exitCode = 0
  /\ args.intensity = heavy /\ args.count = 3
  /\ Len(ArgTokens) = 2
  /\ PatternRan

\* C4 as stated: status 0 on normal completion and status 1 for a count
\* below 1, for an unknown token in --pattern and for an --intensity
\* outside the choice set, which renders nothing.
C4_AllRejectionsExitOne ==
  Exited =>
    /\ args.count < 1 => exitCode = 1
    /\ (args.pattern.given /\ args.pattern.text # <<>> /\ BadTokens # {})
         => exitCode = 1
    /\ ~ArgsAccepted => (exitCode = 1 /\ NothingRendered)
    /\ Positions("banner") # {} => exitCode = 0

\* C4 amended: an --intensity outside the choice set is rejected by the
\* argument parser with status 2 before anything else is looked at and
\* nothing is rendered; otherwise a count below 1 gives status 1;
\* otherwise an unknown token in a non-empty --pattern gives status 1;
\* otherwise the run completes with status 0.
C4_ExitCodes ==
  Exited =>
    IF ~ArgsAccepted
    THEN /\ exitCode = 2
         /\ io = <<[kind |-> "usage_error", stream |-> "stderr"]>>
    ELSE IF args.count < 1 THEN exitCode = 1 /\ NothingRendered
    ELSE IF args.pattern.given /\ args.pattern.text # <<>> /\ BadTokens # {}
    THEN exitCode = 1 /\ NothingRendered
    ELSE exitCode = 0 /\ Positions("banner") # {}

C4_Witness ==
  /\ Exited /\ ~ArgsAccepted /\ exitCode = 2
  /\ args.count >= 1

\* C5: play_pattern writes the step headers in the order of the tokens:
\* at any time the headers written are Step 1/N .. Step m/N with the names
\* of the first m trimmed tokens, each header is directly followed by the
\* bar of its element and, before the next header, by its animation; at
\* the end m = N and the banner comes last.
C5_PatternOrder ==
  (ArgsAccepted /\ args.count >= 1 /\ ValidPattern) =>
    LET hs == Positions("step_header")
        N == Len(ArgTokens)
    IN
      /\ \A p \in hs :
           LET m == Cardinality({q \in hs : q <= p}) IN
             /\ m <= N
             /\ io[p].i = m /\ io[p].total = N /\ io[p].name = ArgTokens[m]
             /\ p + 1 <= Len(io) /\ io[p + 1].kind = "bar"
             /\ \A q \in hs : (q > p /\ \A r \in hs : ~(p < r /\ r < q)) =>
                  /\ Cardinality({d \in Positions("dot") : p < d /\ d < q})
                       = DocDots(ArgTokens[m])
                  /\ Cardinality({d \in Positions("newline") : p < d /\ d < q})
                       = 1
                  /\ Cardinality({d \in Positions("bar") : p < d /\ d < q})
                       = 1
             /\ \A b \in Positions("banner") : p < b
      /\ Exited =>
           /\ Cardinality(hs) = N
           /\ io[Len(io)].kind = "banner"
           /\ Cardinality(Positions("banner")) = 1
           /\ \A p \in hs :
                Cardinality({q \in hs : q <= p}) = N =>
                  Cardinality({d \in Positions("dot") : d > p})
                    = DocDots(ArgTokens[N])

C5_Witness ==
  /\ Exited /\ ValidPattern /\ exitCode = 0
  /\ args.pattern.text = heavy \o <<",", " ">> \o medium \o <<" ", ",">> \o light
  /\ Cardinality(Positions("step_header")) = 3

IsPrefix(a, b) == Len(a) <= Len(b) /\ a = SubSeq(b, 1, Len(a))

\* C6: once vibrate runs with count >= 1, what it has written is at all
\* times a prefix of: title, rule, then for i = 1..count the header
\* [i/count] followed by the animation of the intensity and, except after
\* the last, the pause; then rule and banner.  The run reaches its end,
\* where the whole of it has been written, the banner once and last.
C6_RepeatedSteps ==
  /\ []((RepeatedRan /\ args.count >= 1) =>
          /\ IsPrefix(io, DocRepeated(args.intensity, args.count))
          /\ Exited => io = DocRepeated(args.intensity, args.count))
  /\ ((RepeatedRan /\ args.count >= 1) ~>
        (/\ Exited
         /\ Cardinality(Positions("rep_header")) = args.count
         /\ Cardinality(Positions("banner")) = 1
         /\ io[Len(io)].kind = "banner"))

C6_Witness ==
  /\ Exited /\ RepeatedRan /\ exitCode = 0
  /\ args.intensity = light /\ args.count = 3
  /\ Cardinality(Positions("rep_header")) = 3
  /\ Cardinality(Positions("dot")) = 3

\* C7: every bar written is the documented bar of its intensity: 6, 18 or
\* 30 fill characters of the intensity's block, which is floor(seconds *
\* 60), in green, yellow or red; vibrate and play_pattern agree on it.
C7_Bars ==
  /\ \A n \in DOMAIN io :
       /\ io[n].kind = "rep_header" => io[n].bar = DocBar(args.intensity)
       /\ io[n].kind = "bar" =>
            /\ n > 1 /\ io[n - 1].kind = "step_header"
            /\ io[n].bar = DocBar(io[n - 1].name)
  /\ \A nm \in Names :
       /\ DocBar(nm).length * 1000 <= DocMs(nm) * 60
       /\ DocMs(nm) * 60 < (DocBar(nm).length + 1) * 1000
  /\ \A m \in Members : VibrateBar(m) = PatternBar(m)

C7_Witness ==
  /\ Exited /\ PatternRan
  /\ \E n \in Positions("bar") : io[n].bar.length = 18
  /\ \E n \in Positions("bar") : io[n].bar.length = 30

\* C8: a finished vibrate has made count - 1 pauses of 0.2 s and a
\* finished play_pattern N - 1 pauses of 0.3 s; every pause sits between
\* the newline that ends an animation and the next header, so none sits
\* between the last animation and the closing lines; all sleeps of vibrate
\* add up to count * duration + (count - 1) * 0.2 s.
C8_Pauses ==
  /\ (Exited /\ RepeatedRan) =>
       /\ Cardinality(Pauses) = args.count - 1
       /\ \A p \in Pauses :
            /\ io[p].num = 200 /\ io[p].den = 1
            /\ io[p - 1].kind = "newline"
            /\ io[p + 1].kind = "rep_header"
       /\ io[Len(io) - 2].kind = "newline"
       /\ Slept60(Len(io))
            = 60 * (args.count * DocMs(args.intensity)
                    + (args.count - 1) * 200)
  /\ (Exited /\ PatternRan) =>
       /\ Cardinality(Pauses) = Len(ArgTokens) - 1
       /\ \A p \in Pauses :
            /\ io[p].num = 300 /\ io[p].den = 1
            /\ io[p - 1].kind = "newline"
            /\ io[p + 1].kind = "step_header"
       /\ io[Len(io) - 2].kind = "newline"

C8_Witness ==
  /\ Exited /\ RepeatedRan
  /\ args.count = 3 /\ args.intensity = medium
  /\ Cardinality(Pauses) = 2

\* C9: _animate_vibration never divides by a zero step count and never
\* raises; steps is floor(duration * 10); on return it has written steps
\* dots, each followed by a sleep of duration / steps, the sleeps adding
\* up to the duration, and then one newline, which is all it writes when
\* the duration is below 0.1 s; the catalog durations give 1, 3 and 5.
C9_Animate ==
  /\ pc # "exited"
  /\ \A n \in DOMAIN io : io[n].kind # "traceback"
  /\ \A n \in Positions("sleep") : io[n].den # 0
  /\ pc \in {"anim_loop", "returned"} =>
       /\ steps * 100 <= duration /\ duration < (steps + 1) * 100
       /\ duration = 100 => steps = 1
       /\ duration = 300 => steps = 3
       /\ duration = 500 => steps = 5
  /\ pc = "returned" =>
       /\ io = DocAnimation(duration, steps)
       /\ Cardinality(Positions("dot")) = steps
       /\ Cardinality(Positions("newline")) = 1
       /\ Slept60(Len(io)) = IF steps = 0 THEN 0 ELSE 60 * duration
       /\ duration < 100 => io = <<[kind |-> "newline"]>>

C9_Witness ==
  /\ pc = "returned" /\ duration = 50 /\ steps = 0
  /\ io = <<[kind |-> "newline"]>>

\* C10 as stated: vibrate runs exactly when --pattern is not supplied;
\* with --pattern supplied, the empty string included, vibrate never runs
\* and the run either plays a non-empty pattern or ends with status 1 on
\* an invalid token; play_pattern never gets an empty list.
C10_ModeByPresence ==
  ArgsAccepted =>
    /\ Exited => (RepeatedRan <=> ~args.pattern.given)
    /\ args.pattern.given =>
         /\ ~RepeatedRan
         /\ Exited =>
              \/ PatternRan /\ exitCode = 0 /\ Positions("step_header") # {}
              \/ exitCode = 1 /\ Positions("error_token") # {}
    /\ PatternRan => pattern # <<>>

\* C10 amended: vibrate runs exactly when count >= 1 and --pattern is
\* absent or the empty string; with a non-empty --pattern vibrate never
\* runs and the run either plays a non-empty pattern or ends with status 1
\* on the count error or on an invalid token; play_pattern never gets an
\* empty list.
C10_ModeSelection ==
  ArgsAccepted =>
    /\ Exited =>
         (RepeatedRan <=>
            (args.count >= 1
             /\ (~args.pattern.given \/ args.pattern.text = <<>>)))
    /\ (args.pattern.given /\ args.pattern.text # <<>>) =>
         /\ ~RepeatedRan
         /\ Exited =>
              \/ PatternRan /\ exitCode = 0 /\ Positions("step_header") # {}
              \/ /\ exitCode = 1
                 /\ Len(io) = 1
                 /\ io[1].kind = (IF args.count < 1 THEN "error_count"
                                  ELSE "error_token")
    /\ PatternRan => pattern # <<>>

C10_Witness ==
  /\ Exited /\ ArgsAccepted
  /\ args.pattern.given /\ args.pattern.text = <<>>
  /\ args.count = 2
  /\ RepeatedRan

====
